---- MODULE Spec2Model ----
(***************************************************************************)
(* Order placement and payment reconciliation of the cozy-creations        *)
(* backend: the checkout handlers of src/index.js and of the variant       *)
(* src/unnamed/part_000, over a document store holding the collections     *)
(* products and orders, a payment gateway and an identity service.         *)
(*                                                                         *)
(* Every HTTP request is one asynchronous task.  A request slot r holds    *)
(* the request body (body[r]), the handler's local variables (local[r]),   *)
(* the handler's position (pc[r]) and the response sent (resp[r]).  One    *)
(* action is one stretch of handler code between two awaits, together      *)
(* with the store operation the stretch ends in.                           *)
(*                                                                         *)
(* Numbers are JavaScript numbers restricted to the integers and NaN; a    *)
(* quantity in a request may also carry a fraction, which parseInt drops.  *)
(* log[r] is the history of the store writes request r has made.  Fields   *)
(* no handler computes with (customization, createdAt/updatedAt server     *)
(* timestamps, currency) are left out of the documents; of a shipping      *)
(* address only its shape is kept.                                         *)
(***************************************************************************)
EXTENDS Integers, Sequences, FiniteSets, TLC

\* ------------------------------------------------------------------ bounds
MaxLines == 2
MaxStock == 2
MaxQty == 2
MaxReq == 2

\* ------------------------------------------------------------- value sets
ProductIds == {"p1", "p2"}
ReqIds == 1..MaxReq

\* The NaN of JavaScript numbers, kept apart from every integer of the model.
NaN == 0 - 1000000

JsMul(a, b) == IF a = NaN \/ b = NaN THEN NaN ELSE a * b
JsAdd(a, b) == IF a = NaN \/ b = NaN THEN NaN ELSE a + b
JsSub(a, b) == IF a = NaN \/ b = NaN THEN NaN ELSE a - b
\* a >= b, a <= b, a < b of JavaScript: every comparison with NaN is false
JsGe(a, b) == a # NaN /\ b # NaN /\ a >= b
JsLe(a, b) == a # NaN /\ b # NaN /\ a <= b
JsLt(a, b) == a # NaN /\ b # NaN /\ a < b
\* Math.max(a, b): NaN when either argument is NaN
MathMax(a, b) == IF a = NaN \/ b = NaN THEN NaN ELSE IF a >= b THEN a ELSE b
\* !x of a number: 0 and NaN are falsy
Falsy(x) == x = 0 \/ x = NaN

(***************************************************************************)
(* A quantity as the client sends it: the integer n, the fraction n + 0.5, *)
(* or something that is no number ("abc", null, absent).                   *)
(***************************************************************************)
Num(n) == [kind |-> "int", n |-> n]
Half(n) == [kind |-> "half", n |-> n]
NonNumeric == [kind |-> "nan", n |-> 0]
RawQtys == {Num(n) : n \in (0 - 1)..MaxQty} \cup {Half(1), NonNumeric}

\* parseInt(x, 10): the integer part, truncated toward zero; NaN for no number
parseInt(q) ==
  IF q.kind = "nan" THEN NaN
  ELSE IF q.kind = "half" /\ q.n < 0 THEN q.n + 1
  ELSE q.n

\* The quantity is a positive integer (the Cart Line Request of the data model).
IsPositiveInteger(q) == q.kind = "int" /\ q.n > 0

Lines(qtys) == [productId : ProductIds, quantity : qtys]
RECURSIVE SeqsUpTo(_, _)
SeqsUpTo(S, n) ==
  IF n = 0 THEN {<<>>}
  ELSE LET shorter == SeqsUpTo(S, n - 1)
       IN shorter \cup {Append(s, x) : s \in {t \in shorter : Len(t) = n - 1}, x \in S}
Carts(qtys) == SeqsUpTo(Lines(qtys), MaxLines)

\* ---------------------------------------------------------------- products
NoDoc == [exists |-> FALSE, name |-> "", price |-> 0, isActive |-> FALSE,
          tracked |-> FALSE, inventory |-> 0]
Doc(name, price, active, tracked, inv) ==
  [exists |-> TRUE, name |-> name, price |-> price, isActive |-> active,
   tracked |-> tracked, inventory |-> inv]
\* inventory: a number (tracked) or null (untracked, written here as inventory 0)
Stocks == {[tracked |-> FALSE, inventory |-> 0]}
            \cup {[tracked |-> TRUE, inventory |-> s] : s \in 0..MaxStock}
PriceOf == [p1 |-> 5, p2 |-> 3]
\* The catalogs a run starts from: p1 in every state of active flag and stock,
\* p2 absent or present with one unit or untracked.
Catalogs ==
  {[p \in ProductIds |-> IF p = "p1" THEN d1 ELSE d2] :
     d1 \in {Doc("n1", PriceOf.p1, a, s.tracked, s.inventory) : a \in BOOLEAN, s \in Stocks},
     d2 \in {NoDoc} \cup {Doc("n2", PriceOf.p2, a, t, IF t THEN 1 ELSE 0) :
                            a \in BOOLEAN, t \in BOOLEAN}}

\* ------------------------------------------------------------ identity, HMAC
Tokens == {"none", "bad", "good"}
\* Every presented bearer token taken for a verified one.
maybeAuthUnverified(token) == IF token = "none" THEN "null" ELSE "u1"

\* maybeAuth: req.user is set only when verifyIdToken accepts the bearer token
maybeAuth(token) ==
  IF token = "good" THEN "u1" ELSE IF token = "admin" THEN "a1" ELSE "null"

\* The tokens of the requests to the admin routes: none, a customer's, an admin's.
AdminTokens == {"none", "good", "admin"}
\* isAdminUid: the users collection holds a document with this uid and role admin
isAdminUid(uid) == uid \in {"a1"}

Secret == "key_secret"
\* HMAC-SHA256, hex digest, as a perfect MAC: the digest names key and message
Hmac(key, message) == "hmac(" \o key \o "," \o message \o ")"
SignedMessage(oid, pid) == oid \o "|" \o pid
GatewayOrderIds == {"", "o1"}
GatewayPaymentIds == {"", "pay1"}
Signatures == {"", Hmac(Secret, "o1|pay1"), Hmac("attacker", "o1|pay1")}

\* req.body.shippingAddress: absent, the empty string, an object without
\* fields, or an object with the address fields filled in.
NoAddress == "undefined"
EmptyObject == "{}"
FilledAddress == "{fullName, ...}"
ShippingAddresses == {NoAddress, "", EmptyObject, FilledAddress}
\* !shippingAddress: undefined and "" are falsy, every object is truthy
AddressFalsy(a) == a \in {NoAddress, ""}

VARIABLES products, orders, gatewayOrders, keysConfigured, pc, body, local, resp, log

vars == <<products, orders, gatewayOrders, keysConfigured, pc, body, local, resp, log>>

NoBody == [route |-> "", token |-> "none", razorpay_order_id |-> "", razorpay_payment_id |-> "",
           razorpay_signature |-> "", hasOrderData |-> FALSE, hasItems |-> FALSE,
           total |-> 0, shippingAddress |-> NoAddress, items |-> <<>>]
NoLocal == [productDocs |-> <<>>, fetched |-> {}, i |-> 1, lineItems |-> <<>>,
            calculatedTotal |-> 0, amountInPaise |-> 0]
NoResp == [status |-> 0, error |-> "", orderId |-> 0]

InitRequests ==
  /\ pc = [r \in ReqIds |-> "idle"]
  /\ body = [r \in ReqIds |-> NoBody]
  /\ local = [r \in ReqIds |-> NoLocal]
  /\ resp = [r \in ReqIds |-> NoResp]
  /\ log = [r \in ReqIds |-> <<>>]

Init ==
  /\ products \in Catalogs
  /\ orders = <<>>
  /\ gatewayOrders = <<>>
  /\ keysConfigured \in BOOLEAN
  /\ InitRequests

\* res.status(code).json({error}) and return: the handler is over
Respond(r, code, err) ==
  /\ resp' = [resp EXCEPT ![r] = [status |-> code, error |-> err, orderId |-> 0]]
  /\ pc' = [pc EXCEPT ![r] = "done"]

\* A request arrives: everything of it the handler reads before the cart. The
\* cart itself (items) is drawn by the action that first reads it.
Submit(r, route, bodies) ==
  /\ pc[r] = "idle"
  /\ \E b \in bodies : body' = [body EXCEPT ![r] = [b EXCEPT !.route = route]]
  /\ pc' = [pc EXCEPT ![r] = "recv"]
  /\ UNCHANGED <<products, orders, gatewayOrders, keysConfigured, local, resp, log>>

PaymentBodies(totals) ==
  {b \in [route : {""}, token : Tokens, razorpay_order_id : GatewayOrderIds,
          razorpay_payment_id : GatewayPaymentIds, razorpay_signature : Signatures,
          hasOrderData : BOOLEAN, hasItems : BOOLEAN, total : totals,
          shippingAddress : {FilledAddress}, items : {<<>>}] :
     ~b.hasOrderData => (~b.hasItems /\ b.total = 0)}

\* ------------------------------------- src/index.js POST /api/orders/verify-payment
generatedSignature(b) ==
  Hmac(Secret, SignedMessage(b.razorpay_order_id, b.razorpay_payment_id))

\* The comparison left out: every signature is taken for the generated one.
SignatureNotCompared(b) == TRUE

\* lines 526-528: generatedSignature !== razorpay_signature
SignatureMatches(b) == generatedSignature(b) = b.razorpay_signature

\* One store write of request r, in the order made (history of the request).
Logged(r, entry) == log' = [log EXCEPT ![r] = Append(@, entry)]
StockWrite(id, inv) == [coll |-> "products", id |-> id, value |-> inv]
OrderWrite(n) == [coll |-> "orders", id |-> "order", value |-> n]

\* lines 494-540: authentication, input validation, signature, issuing the reads
VpStart(r, carts) ==
  /\ pc[r] = "recv" /\ body[r].route = "verify-payment"
  /\ LET b == body[r]
         uid == maybeAuth(b.token)
     IN  IF uid = "null"
           THEN Respond(r, 401, "unauthorized") /\ UNCHANGED <<body, local>>
         ELSE IF b.razorpay_order_id = "" \/ b.razorpay_payment_id = ""
                   \/ b.razorpay_signature = ""
           THEN Respond(r, 400, "missing_payment_details") /\ UNCHANGED <<body, local>>
         ELSE IF ~b.hasOrderData \/ ~b.hasItems \/ Falsy(b.total)
           THEN Respond(r, 400, "missing_order_data") /\ UNCHANGED <<body, local>>
         ELSE IF ~keysConfigured
           \* crypto.createHmac throws on an undefined key: the catch of line 611
           THEN Respond(r, 500, "internal_error") /\ UNCHANGED <<body, local>>
         ELSE IF ~SignatureMatches(b)
           THEN Respond(r, 400, "invalid_signature") /\ UNCHANGED <<body, local>>
         ELSE \E cart \in carts :
                /\ body' = [body EXCEPT ![r].items = cart]
                /\ local' = [local EXCEPT ![r].productDocs = [k \in 1..Len(cart) |-> NoDoc]]
                /\ pc' = [pc EXCEPT ![r] = IF cart = <<>> THEN "loop" ELSE "fetch"]
                /\ UNCHANGED resp
  /\ UNCHANGED <<products, orders, gatewayOrders, keysConfigured, log>>

\* lines 538-540: one of the reads of Promise.all completes
VpGet(r) ==
  /\ pc[r] = "fetch" /\ body[r].route = "verify-payment"
  /\ \E k \in (1..Len(body[r].items)) \ local[r].fetched :
       /\ local' = [local EXCEPT ![r].productDocs[k] = products[body[r].items[k].productId],
                                 ![r].fetched = @ \cup {k}]
       /\ pc' = [pc EXCEPT ![r] =
                   IF local[r].fetched \cup {k} = 1..Len(body[r].items) THEN "loop" ELSE "fetch"]
  /\ UNCHANGED <<products, orders, gatewayOrders, keysConfigured, body, resp, log>>

\* line 573: the stock write of a line is made only when the result is not negative
VpWritesStock(productDoc, quantity) ==
  productDoc.tracked /\ JsGe(JsSub(productDoc.inventory, quantity), 0)

\* lines 545-580: one iteration of the loop over orderData.items
VpLine(r) ==
  /\ pc[r] = "loop" /\ body[r].route = "verify-payment"
  /\ local[r].i <= Len(body[r].items)
  /\ LET i == local[r].i
         item == body[r].items[i]
         productDoc == local[r].productDocs[i]
     IN  IF ~productDoc.exists
           THEN /\ Respond(r, 400, "product_not_found")
                /\ UNCHANGED <<local, products, log>>
           ELSE LET quantity == parseInt(item.quantity)
                    price == productDoc.price
                    newInventory == JsSub(productDoc.inventory, quantity)
                IN  /\ local' = [local EXCEPT
                          ![r].i = i + 1,
                          ![r].lineItems = Append(@, [productId |-> item.productId,
                                                      name |-> productDoc.name,
                                                      price |-> price,
                                                      quantity |-> quantity]),
                          ![r].calculatedTotal = JsAdd(@, JsMul(price, quantity))]
                    /\ IF VpWritesStock(productDoc, quantity)
                         THEN /\ products' = [products EXCEPT ![item.productId].inventory = newInventory]
                              /\ Logged(r, StockWrite(item.productId, newInventory))
                         ELSE UNCHANGED <<products, log>>
                    /\ UNCHANGED <<pc, resp>>
  /\ UNCHANGED <<orders, gatewayOrders, keysConfigured, body>>

\* The Order with the client's orderData.total in place of the computed total.
orderData_firestore_clientTotal(r) ==
  [userId |-> maybeAuth(body[r].token),
   items |-> local[r].lineItems,
   total |-> body[r].total,
   status |-> "pending",
   payment |-> [razorpay_order_id |-> body[r].razorpay_order_id,
                razorpay_payment_id |-> body[r].razorpay_payment_id,
                razorpay_signature |-> body[r].razorpay_signature,
                verified |-> TRUE]]

\* lines 584-599: the Order document
orderData_firestore(r) ==
  [userId |-> maybeAuth(body[r].token),
   items |-> local[r].lineItems,
   total |-> local[r].calculatedTotal,
   status |-> "pending",
   payment |-> [razorpay_order_id |-> body[r].razorpay_order_id,
                razorpay_payment_id |-> body[r].razorpay_payment_id,
                razorpay_signature |-> body[r].razorpay_signature,
                verified |-> TRUE]]

\* The Order is written and a later statement throws: the catch answers 500.
VpOrderThenThrow(r) ==
  /\ pc[r] = "loop" /\ body[r].route = "verify-payment"
  /\ local[r].i > Len(body[r].items)
  /\ orders' = Append(orders, orderData_firestore(r))
  /\ Logged(r, OrderWrite(Len(orders) + 1))
  /\ Respond(r, 500, "internal_error")
  /\ UNCHANGED <<products, gatewayOrders, keysConfigured, body, local>>

\* The Order is written while the last cart line is still to be processed.
VpOrderBeforeLastLine(r) ==
  /\ pc[r] = "loop" /\ body[r].route = "verify-payment"
  /\ local[r].i >= Len(body[r].items)
  /\ orders' = Append(orders, orderData_firestore(r))
  /\ Logged(r, OrderWrite(Len(orders) + 1))
  /\ resp' = [resp EXCEPT ![r] = [status |-> 200, error |-> "", orderId |-> Len(orders) + 1]]
  /\ pc' = [pc EXCEPT ![r] = "done"]
  /\ UNCHANGED <<products, gatewayOrders, keysConfigured, body, local>>

\* lines 582-610: the Order is written and the success response sent
VpOrder(r) ==
  /\ pc[r] = "loop" /\ body[r].route = "verify-payment"
  /\ local[r].i > Len(body[r].items)
  /\ orders' = Append(orders, orderData_firestore(r))
  /\ Logged(r, OrderWrite(Len(orders) + 1))
  /\ resp' = [resp EXCEPT ![r] = [status |-> 200, error |-> "", orderId |-> Len(orders) + 1]]
  /\ pc' = [pc EXCEPT ![r] = "done"]
  /\ UNCHANGED <<products, gatewayOrders, keysConfigured, body, local>>

\* The store operation the handler is waiting for is the pending read, the
\* stock write of the current line, or the Order write.
VpAwaitsStore(r) ==
  \/ pc[r] = "fetch"
  \/ /\ pc[r] = "loop"
     /\ \/ local[r].i > Len(body[r].items)
        \/ /\ local[r].i <= Len(body[r].items)
           /\ local[r].productDocs[local[r].i].exists
           /\ VpWritesStock(local[r].productDocs[local[r].i],
                            parseInt(body[r].items[local[r].i].quantity))

\* The catch puts every product the request read back to the document read.
VpStoreFailRollsBack(r) ==
  /\ body[r].route = "verify-payment"
  /\ VpAwaitsStore(r)
  /\ Respond(r, 500, "internal_error")
  /\ products' = [p \in ProductIds |->
                   IF \E k \in local[r].fetched : body[r].items[k].productId = p
                     THEN local[r].productDocs[
                            CHOOSE k \in local[r].fetched : body[r].items[k].productId = p]
                     ELSE products[p]]
  /\ UNCHANGED <<orders, gatewayOrders, keysConfigured, body, local, log>>

\* lines 611-617: a store operation rejects, the catch answers internal_error
VpStoreFail(r) ==
  /\ body[r].route = "verify-payment"
  /\ VpAwaitsStore(r)
  /\ Respond(r, 500, "internal_error")
  /\ UNCHANGED <<products, orders, gatewayOrders, keysConfigured, body, local, log>>

\* ------------------------------------- src/index.js POST /api/orders/create-payment
\* The request body of create-payment: { items, total }.  total is a number
\* (NaN stands for a total that is no usable number).
CreateBodies(totals) ==
  [route : {""}, token : Tokens, razorpay_order_id : {""}, razorpay_payment_id : {""},
   razorpay_signature : {""}, hasOrderData : {FALSE}, hasItems : BOOLEAN, total : totals,
   shippingAddress : {NoAddress}, items : {<<>>}]

\* The identifier the gateway gives its n-th order.
GatewayIdOf(n) == <<"o1", "o2", "o3", "o4">>[n]

\* lines 348-382: authentication, configuration, input validation, issuing the reads
CpStart(r, carts) ==
  /\ pc[r] = "recv" /\ body[r].route = "create-payment"
  /\ LET b == body[r]
     IN  IF maybeAuth(b.token) = "null"
           THEN Respond(r, 401, "unauthorized") /\ UNCHANGED <<body, local>>
         ELSE IF ~keysConfigured
           THEN Respond(r, 500, "payment_not_configured") /\ UNCHANGED <<body, local>>
         ELSE IF ~b.hasItems
           THEN Respond(r, 400, "empty_cart") /\ UNCHANGED <<body, local>>
         ELSE \E cart \in carts :
                IF cart = <<>>
                  THEN Respond(r, 400, "empty_cart") /\ UNCHANGED <<body, local>>
                ELSE IF Falsy(b.total) \/ JsLe(b.total, 0)
                  THEN Respond(r, 400, "invalid_total") /\ UNCHANGED <<body, local>>
                ELSE /\ body' = [body EXCEPT ![r].items = cart]
                     /\ local' = [local EXCEPT ![r].productDocs = [k \in 1..Len(cart) |-> NoDoc]]
                     /\ pc' = [pc EXCEPT ![r] = "fetch"]
                     /\ UNCHANGED resp
  /\ UNCHANGED <<products, orders, gatewayOrders, keysConfigured, log>>

\* A read that may come back without the document although it is stored.
CpGetMayMiss(r) ==
  /\ pc[r] = "fetch" /\ body[r].route = "create-payment"
  /\ \E k \in (1..Len(body[r].items)) \ local[r].fetched :
       /\ \E d \in {products[body[r].items[k].productId], NoDoc} :
            local' = [local EXCEPT ![r].productDocs[k] = d, ![r].fetched = @ \cup {k}]
       /\ pc' = [pc EXCEPT ![r] =
                   IF local[r].fetched \cup {k} = 1..Len(body[r].items) THEN "validate" ELSE "fetch"]
  /\ UNCHANGED <<products, orders, gatewayOrders, keysConfigured, body, resp, log>>

\* lines 380-382: one of the reads of Promise.all completes
CpGet(r) ==
  /\ pc[r] = "fetch" /\ body[r].route = "create-payment"
  /\ \E k \in (1..Len(body[r].items)) \ local[r].fetched :
       /\ local' = [local EXCEPT ![r].productDocs[k] = products[body[r].items[k].productId],
                                 ![r].fetched = @ \cup {k}]
       /\ pc' = [pc EXCEPT ![r] =
                   IF local[r].fetched \cup {k} = 1..Len(body[r].items) THEN "validate" ELSE "fetch"]
  /\ UNCHANGED <<products, orders, gatewayOrders, keysConfigured, body, resp, log>>

\* lines 391-417: the error cart line (item, product document) fails with, or ""
CpLineError(item, productDoc) ==
  LET quantity == parseInt(item.quantity)
  IN  IF ~productDoc.exists THEN "product_not_found"
      ELSE IF ~productDoc.isActive THEN "product_inactive"
      ELSE IF Falsy(quantity) \/ JsLe(quantity, 0) THEN "invalid_quantity"
      ELSE IF productDoc.tracked /\ JsLt(productDoc.inventory, quantity)
        THEN "insufficient_inventory"
      ELSE ""

\* lines 387-429: the loop over the first n lines: the first error met, the
\* line items pushed and the total summed so far
RECURSIVE CpLoop(_, _, _)
CpLoop(items, productDocs, n) ==
  IF n = 0 THEN [error |-> "", lineItems |-> <<>>, calculatedTotal |-> 0]
  ELSE LET before == CpLoop(items, productDocs, n - 1)
           err == CpLineError(items[n], productDocs[n])
           quantity == parseInt(items[n].quantity)
           price == productDocs[n].price
       IN  IF before.error # "" THEN before
           ELSE IF err # "" THEN [before EXCEPT !.error = err]
           ELSE [error |-> "",
                 lineItems |-> Append(before.lineItems,
                                      [productId |-> items[n].productId,
                                       name |-> productDocs[n].name,
                                       price |-> price,
                                       quantity |-> quantity]),
                 calculatedTotal |-> JsAdd(before.calculatedTotal, JsMul(price, quantity))]

\* The check of the declared total left out: no total is a mismatch.
TotalMismatchNever(calculatedTotal, total) == FALSE

\* Math.abs(calculatedTotal - total) > 1 of line 432
TotalMismatch(calculatedTotal, total) ==
  LET d == JsSub(calculatedTotal, total)
  IN  d # NaN /\ (IF d < 0 THEN 0 - d ELSE d) > 1

\* Math.round(total * 100) of line 442, on an integer total
amountInPaise(total) == JsMul(total, 100)

\* lines 384-447: the validation loop, the total check, the gateway call issued
CpValidate(r) ==
  /\ pc[r] = "validate" /\ body[r].route = "create-payment"
  /\ LET b == body[r]
         res == CpLoop(b.items, local[r].productDocs, Len(b.items))
     IN  IF res.error # ""
           THEN Respond(r, 400, res.error) /\ UNCHANGED local
         ELSE IF TotalMismatch(res.calculatedTotal, b.total)
           THEN /\ Respond(r, 400, "total_mismatch")
                /\ local' = [local EXCEPT ![r].lineItems = res.lineItems,
                                          ![r].calculatedTotal = res.calculatedTotal]
         ELSE /\ local' = [local EXCEPT ![r].lineItems = res.lineItems,
                                        ![r].calculatedTotal = res.calculatedTotal,
                                        ![r].amountInPaise = amountInPaise(b.total)]
              /\ pc' = [pc EXCEPT ![r] = "gateway"]
              /\ UNCHANGED resp
  /\ UNCHANGED <<products, orders, gatewayOrders, keysConfigured, body, log>>

\* lines 447-465: the gateway creates its order; its id and amount are returned
CpGateway(r) ==
  /\ pc[r] = "gateway" /\ body[r].route = "create-payment"
  /\ gatewayOrders' = Append(gatewayOrders,
       [id |-> GatewayIdOf(Len(gatewayOrders) + 1),
        amount |-> local[r].amountInPaise,
        currency |-> "INR",
        userId |-> maybeAuth(body[r].token)])
  /\ resp' = [resp EXCEPT ![r] = [status |-> 200, error |-> "",
                                  orderId |-> Len(gatewayOrders) + 1]]
  /\ pc' = [pc EXCEPT ![r] = "done"]
  /\ UNCHANGED <<products, orders, keysConfigured, body, local, log>>

\* The gateway's failure answered after an Order was saved for the intent.
CpGatewayFailSavesOrder(r) ==
  /\ pc[r] = "gateway" /\ body[r].route = "create-payment"
  /\ orders' = Append(orders, [userId |-> maybeAuth(body[r].token),
                               items |-> local[r].lineItems,
                               total |-> local[r].calculatedTotal,
                               status |-> "pending"])
  /\ Logged(r, OrderWrite(Len(orders) + 1))
  /\ Respond(r, 500, "razorpay_error")
  /\ UNCHANGED <<products, gatewayOrders, keysConfigured, body, local>>

\* lines 466-472: razorpay.orders.create rejects
CpGatewayFail(r) ==
  /\ pc[r] = "gateway" /\ body[r].route = "create-payment"
  /\ Respond(r, 500, "razorpay_error")
  /\ UNCHANGED <<products, orders, gatewayOrders, keysConfigured, body, local, log>>

\* lines 473-479: a product read rejects, the outer catch answers internal_error
CpStoreFail(r) ==
  /\ pc[r] = "fetch" /\ body[r].route = "create-payment"
  /\ Respond(r, 500, "internal_error")
  /\ UNCHANGED <<products, orders, gatewayOrders, keysConfigured, body, local, log>>

\* ------------------------------------------------- src/index.js admin routes
\* A request to an admin route that is answered with an error (403 forbidden,
\* 400, or 500 when the document to update does not exist) makes no write: the
\* conditions of these answers are the guards of the actions below.
\* The list of statuses with one more value let in.
allowedStatusesAndRefunded ==
  {"pending", "confirmed", "packed", "shipped", "delivered", "cancelled", "refunded"}

allowedStatuses == {"pending", "confirmed", "packed", "shipped", "delivered", "cancelled"}
\* req.body.status: absent (""), two values of the list, one value outside it
RequestedStatuses == {"", "pending", "shipped", "refunded"}
\* req.body.product of the product update
ProductUpdates == {[name |-> "renamed", price |-> 7]}

\* DocumentReference.update(updates): the named fields are replaced, the others kept
Merge(doc, updates) ==
  [f \in DOMAIN doc |-> IF f \in DOMAIN updates THEN updates[f] ELSE doc[f]]

\* lines 310-322 and 331-334: the error PATCH /api/admin/orders/:id answers
\* with, or "" when it answers with the updated Order; update() rejects when
\* the document does not exist
AdminOrderError(token, orderId, status) ==
  IF ~isAdminUid(maybeAuth(token)) THEN "forbidden"
  ELSE IF status = "" \/ status \notin allowedStatuses THEN "invalid_status"
  ELSE IF orderId \notin 1..Len(orders) THEN "internal_error"
  ELSE ""

\* The order update that writes the whole request body into the Order.
AdminPatchOrderWholeBody ==
  \E token \in AdminTokens, orderId \in 1..(MaxReq + 1), status \in RequestedStatuses :
    /\ AdminOrderError(token, orderId, status) = ""
    /\ orders' = [orders EXCEPT ![orderId] = Merge(@, [status |-> status, total |-> 0])]
    /\ UNCHANGED <<products, gatewayOrders, keysConfigured, pc, body, local, resp, log>>

\* lines 308-335: PATCH /api/admin/orders/:id
AdminPatchOrder ==
  \E token \in AdminTokens, orderId \in 1..(MaxReq + 1), status \in RequestedStatuses :
    /\ AdminOrderError(token, orderId, status) = ""
    /\ orders' = [orders EXCEPT ![orderId] = Merge(@, [status |-> status])]
    /\ UNCHANGED <<products, gatewayOrders, keysConfigured, pc, body, local, resp, log>>

\* lines 203-231: PATCH /api/admin/products/:id
AdminPatchProduct ==
  \E token \in AdminTokens, productId \in ProductIds, updates \in ProductUpdates :
    /\ isAdminUid(maybeAuth(token))
    /\ products[productId].exists
    /\ products' = [products EXCEPT ![productId] = Merge(@, updates)]
    /\ UNCHANGED <<orders, gatewayOrders, keysConfigured, pc, body, local, resp, log>>

\* lines 234-255: DELETE /api/admin/products/:id (the product is deactivated)
AdminDeleteProduct ==
  \E token \in AdminTokens, productId \in ProductIds :
    /\ isAdminUid(maybeAuth(token))
    /\ products[productId].exists
    /\ products' = [products EXCEPT ![productId] = Merge(@, [isActive |-> FALSE])]
    /\ UNCHANGED <<orders, gatewayOrders, keysConfigured, pc, body, local, resp, log>>

\* ----------------------------- src/unnamed/part_000 verify-payment and place-cod
\* The number a quantity stands for in p.inventory - it.quantity (ToNumber).
\* The carts of these two handlers hold integers and non-numbers only.
ToNumber(q) == IF q.kind = "nan" THEN NaN ELSE q.n

CodBodies(totals) ==
  [route : {""}, token : Tokens, razorpay_order_id : {""}, razorpay_payment_id : {""},
   razorpay_signature : {""}, hasOrderData : {FALSE}, hasItems : BOOLEAN, total : totals,
   shippingAddress : ShippingAddresses, items : {<<>>}]

P0Routes == {"verify-payment-0", "place-cod-0"}

\* The loop begins: the first line's read is awaited, or with no line the save.
P0Begin(r, cart) ==
  /\ body' = [body EXCEPT ![r].items = cart]
  /\ local' = [local EXCEPT ![r].productDocs = [k \in 1..Len(cart) |-> NoDoc]]
  /\ pc' = [pc EXCEPT ![r] = IF cart = <<>> THEN "add" ELSE "get"]
  /\ UNCHANGED resp

\* part_000 lines 270-291: authentication, signature, entering the loop
V0Start(r, carts) ==
  /\ pc[r] = "recv" /\ body[r].route = "verify-payment-0"
  /\ LET b == body[r]
     IN  IF maybeAuth(b.token) = "null"
           THEN Respond(r, 401, "unauthorized") /\ UNCHANGED <<body, local>>
         ELSE IF ~keysConfigured
           THEN Respond(r, 500, "internal_error") /\ UNCHANGED <<body, local>>
         ELSE IF ~SignatureMatches(b)
           THEN Respond(r, 400, "invalid_signature") /\ UNCHANGED <<body, local>>
         ELSE IF ~b.hasOrderData \/ ~b.hasItems
           \* orderData.items of undefined, or a loop over undefined: a TypeError
           THEN Respond(r, 500, "internal_error") /\ UNCHANGED <<body, local>>
         ELSE \E cart \in carts : P0Begin(r, cart)
  /\ UNCHANGED <<products, orders, gatewayOrders, keysConfigured, log>>

\* part_000 lines 339-351: authentication, payload check, entering the loop
C0Start(r, carts) ==
  /\ pc[r] = "recv" /\ body[r].route = "place-cod-0"
  /\ LET b == body[r]
     IN  IF maybeAuth(b.token) = "null"
           THEN Respond(r, 401, "unauthorized") /\ UNCHANGED <<body, local>>
         ELSE IF ~b.hasItems \/ Falsy(b.total) \/ AddressFalsy(b.shippingAddress)
           THEN Respond(r, 400, "invalid_payload") /\ UNCHANGED <<body, local>>
         ELSE \E cart \in carts :
                IF cart = <<>>
                  THEN Respond(r, 400, "invalid_payload") /\ UNCHANGED <<body, local>>
                  ELSE P0Begin(r, cart)
  /\ UNCHANGED <<products, orders, gatewayOrders, keysConfigured, log>>

\* The subtraction without Math.max(0, ...).
P0NewInventoryUnfloored(p, quantity) == JsSub(p.inventory, ToNumber(quantity))

\* Lines 303-311 and 363-371: the stock written for a line, floored at zero
P0NewInventory(p, quantity) == MathMax(0, JsSub(p.inventory, ToNumber(quantity)))

P0Advance(r) ==
  pc' = [pc EXCEPT ![r] = IF local[r].i + 1 > Len(body[r].items) THEN "add" ELSE "get"]

\* lines 292-302 and 352-362: the line's product is read; a missing one is skipped
P0Get(r) ==
  /\ pc[r] = "get" /\ body[r].route \in P0Routes
  /\ LET i == local[r].i
         it == body[r].items[i]
         pSnap == products[it.productId]
     IN  IF ~pSnap.exists
           THEN /\ local' = [local EXCEPT ![r].i = i + 1]
                /\ P0Advance(r)
           ELSE /\ local' = [local EXCEPT
                      ![r].productDocs[i] = pSnap,
                      ![r].lineItems = Append(@, [productId |-> it.productId,
                                                  name |-> pSnap.name,
                                                  price |-> pSnap.price,
                                                  quantity |-> it.quantity]),
                      ![r].i = IF pSnap.tracked THEN i ELSE i + 1]
                /\ IF pSnap.tracked THEN pc' = [pc EXCEPT ![r] = "put"] ELSE P0Advance(r)
  /\ UNCHANGED <<products, orders, gatewayOrders, keysConfigured, body, resp, log>>

\* The stock update as a transaction: the subtraction from the stock now stored.
P0PutAtomic(r) ==
  /\ pc[r] = "put" /\ body[r].route \in P0Routes
  /\ products[body[r].items[local[r].i].productId].exists
  /\ LET i == local[r].i
         it == body[r].items[i]
         inv == P0NewInventory(products[it.productId], it.quantity)
     IN  /\ products' = [products EXCEPT ![it.productId].inventory = inv]
         /\ Logged(r, StockWrite(it.productId, inv))
         /\ local' = [local EXCEPT ![r].i = i + 1]
         /\ P0Advance(r)
  /\ UNCHANGED <<orders, gatewayOrders, keysConfigured, body, resp>>

\* lines 303-311 and 363-371: the stock update of the line, from the value read
P0Put(r) ==
  /\ pc[r] = "put" /\ body[r].route \in P0Routes
  /\ products[body[r].items[local[r].i].productId].exists
  /\ LET i == local[r].i
         it == body[r].items[i]
         inv == P0NewInventory(local[r].productDocs[i], it.quantity)
     IN  /\ products' = [products EXCEPT ![it.productId].inventory = inv]
         /\ Logged(r, StockWrite(it.productId, inv))
         /\ local' = [local EXCEPT ![r].i = i + 1]
         /\ P0Advance(r)
  /\ UNCHANGED <<orders, gatewayOrders, keysConfigured, body, resp>>

\* lines 315-331 (verify-payment) and 375-388 (place-cod): the Order is saved
P0Order(r) ==
  IF body[r].route = "verify-payment-0"
    THEN [userId |-> maybeAuth(body[r].token),
          items |-> local[r].lineItems,
          total |-> body[r].total,
          shippingAddress |-> body[r].shippingAddress,
          status |-> "pending",
          payment |-> [razorpay_order_id |-> body[r].razorpay_order_id,
                       razorpay_payment_id |-> body[r].razorpay_payment_id]]
    ELSE [userId |-> maybeAuth(body[r].token),
          items |-> local[r].lineItems,
          total |-> body[r].total,
          shippingAddress |-> body[r].shippingAddress,
          status |-> "pending",
          paymentMethod |-> "cod",
          paymentStatus |-> "awaiting_collection"]

P0Add(r) ==
  /\ pc[r] = "add" /\ body[r].route \in P0Routes
  /\ orders' = Append(orders, P0Order(r))
  /\ Logged(r, OrderWrite(Len(orders) + 1))
  /\ resp' = [resp EXCEPT ![r] = [status |-> 200, error |-> "", orderId |-> Len(orders) + 1]]
  /\ pc' = [pc EXCEPT ![r] = "done"]
  /\ UNCHANGED <<products, gatewayOrders, keysConfigured, body, local>>

\* lines 332-335 and 389-392: a store operation rejects, the catch answers 500
P0StoreFail(r) ==
  /\ pc[r] \in {"get", "put", "add"} /\ body[r].route \in P0Routes
  /\ Respond(r, 500, "internal_error")
  /\ UNCHANGED <<products, orders, gatewayOrders, keysConfigured, body, local, log>>

\* part_000 lines 417-431: the error PATCH /api/admin/orders/:id answers with,
\* or "" when it answers success; update() rejects an undefined status and a
\* document that does not exist
AdminOrderError0(token, orderId, status) ==
  IF ~isAdminUid(maybeAuth(token)) THEN "forbidden"
  ELSE IF status = "" \/ orderId \notin 1..Len(orders) THEN "internal_error"
  ELSE ""

\* part_000 lines 417-431: PATCH /api/admin/orders/:id
AdminPatchOrder0 ==
  \E token \in AdminTokens, orderId \in 1..(MaxReq + 1), status \in RequestedStatuses :
    /\ AdminOrderError0(token, orderId, status) = ""
    /\ orders' = [orders EXCEPT ![orderId] = Merge(@, [status |-> status])]
    /\ UNCHANGED <<products, gatewayOrders, keysConfigured, pc, body, local, resp, log>>

\* ------------------------------------- src/unnamed/part_001 verify-payment
\* The request body of part_001's verify-payment: orderData may carry fields
\* named status and userId of the client's own ("" when it carries none).
PaymentBodies1(totals) ==
  {b \in [route : {""}, token : Tokens, razorpay_order_id : GatewayOrderIds,
          razorpay_payment_id : GatewayPaymentIds, razorpay_signature : Signatures,
          hasOrderData : BOOLEAN, hasItems : BOOLEAN, total : totals,
          shippingAddress : {FilledAddress}, items : {<<>>},
          clientStatus : {"", "delivered"}, clientUserId : {"", "u2"}] :
     /\ ~b.hasOrderData => (~b.hasItems /\ b.total = 0)
     /\ (b.clientStatus # "" \/ b.clientUserId # "") => b.hasOrderData}

\* { ...a, ...b }: the fields of both, those of b winning
Spread(a, b) ==
  [f \in DOMAIN a \cup DOMAIN b |-> IF f \in DOMAIN b THEN b[f] ELSE a[f]]

\* req.body.orderData
orderDataOf(b) ==
  LET base == [items |-> b.items, total |-> b.total, shippingAddress |-> b.shippingAddress]
      withStatus == IF b.clientStatus = "" THEN base
                    ELSE Spread(base, [status |-> b.clientStatus])
  IN  IF b.clientUserId = "" THEN withStatus
      ELSE Spread(withStatus, [userId |-> b.clientUserId])

\* req.user?.uid || "guest"
uidOrGuest(token) == IF maybeAuth(token) = "null" THEN "guest" ELSE maybeAuth(token)

\* The Order with orderData spread after the server's fields.
V1OrderSpreadLast(r) ==
  Spread([userId |-> uidOrGuest(body[r].token),
          status |-> "pending",
          paymentId |-> body[r].razorpay_payment_id],
         orderDataOf(body[r]))

\* part_001 lines 257-263: the Order document
V1Order(r) ==
  Spread(orderDataOf(body[r]),
         [userId |-> uidOrGuest(body[r].token),
          status |-> "pending",
          paymentId |-> body[r].razorpay_payment_id])

\* part_001 lines 231-246: the signature check, entering the loop; no identity
\* is required
V1Start(r, carts) ==
  /\ pc[r] = "recv" /\ body[r].route = "verify-payment-1"
  /\ LET b == body[r]
     IN  IF ~keysConfigured
           THEN Respond(r, 500, "Order processing failed") /\ UNCHANGED <<body, local>>
         ELSE IF ~SignatureMatches(b)
           THEN Respond(r, 400, "Payment verification failed") /\ UNCHANGED <<body, local>>
         ELSE IF ~b.hasOrderData \/ ~b.hasItems
           THEN Respond(r, 500, "Order processing failed") /\ UNCHANGED <<body, local>>
         ELSE \E cart \in carts : P0Begin(r, cart)
  /\ UNCHANGED <<products, orders, gatewayOrders, keysConfigured, log>>

V1Advance(r) ==
  pc' = [pc EXCEPT ![r] = IF local[r].i + 1 > Len(body[r].items) THEN "add" ELSE "get"]

\* part_001 lines 247-250: the line's product is read
V1Get(r) ==
  /\ pc[r] = "get" /\ body[r].route = "verify-payment-1"
  /\ LET i == local[r].i
         pSnap == products[body[r].items[i].productId]
     IN  IF pSnap.exists /\ pSnap.tracked
           THEN /\ local' = [local EXCEPT ![r].productDocs[i] = pSnap]
                /\ pc' = [pc EXCEPT ![r] = "put"]
           ELSE /\ local' = [local EXCEPT ![r].i = i + 1]
                /\ V1Advance(r)
  /\ UNCHANGED <<products, orders, gatewayOrders, keysConfigured, body, resp, log>>

\* part_001 lines 251-254: the stock update of the line, from the value read
V1Put(r) ==
  /\ pc[r] = "put" /\ body[r].route = "verify-payment-1"
  /\ products[body[r].items[local[r].i].productId].exists
  /\ LET i == local[r].i
         item == body[r].items[i]
         inv == MathMax(0, JsSub(local[r].productDocs[i].inventory, ToNumber(item.quantity)))
     IN  /\ products' = [products EXCEPT ![item.productId].inventory = inv]
         /\ Logged(r, StockWrite(item.productId, inv))
         /\ local' = [local EXCEPT ![r].i = i + 1]
         /\ V1Advance(r)
  /\ UNCHANGED <<orders, gatewayOrders, keysConfigured, body, resp>>

\* part_001 lines 257-265: the Order is added and success answered
V1Add(r) ==
  /\ pc[r] = "add" /\ body[r].route = "verify-payment-1"
  /\ orders' = Append(orders, V1Order(r))
  /\ Logged(r, OrderWrite(Len(orders) + 1))
  /\ resp' = [resp EXCEPT ![r] = [status |-> 200, error |-> "", orderId |-> Len(orders) + 1]]
  /\ pc' = [pc EXCEPT ![r] = "done"]
  /\ UNCHANGED <<products, gatewayOrders, keysConfigured, body, local>>

\* part_001 lines 266-268: a store operation rejects
V1StoreFail(r) ==
  /\ pc[r] \in {"get", "put", "add"} /\ body[r].route = "verify-payment-1"
  /\ Respond(r, 500, "Order processing failed")
  /\ UNCHANGED <<products, orders, gatewayOrders, keysConfigured, body, local, log>>

\* ------------------------------------------------------------ specifications
\* The integer quantities greater than zero, and the quantities without fractions.
PositiveInts == {Num(n) : n \in 1..MaxQty}
IntQtys == {Num(n) : n \in (0 - 1)..MaxQty} \cup {NonNumeric}

\* One verify-payment request of src/index.js, alone, from every catalog.
NextVerify ==
  \/ Submit(1, "verify-payment", PaymentBodies({0, 10}))
  \/ VpStart(1, Carts(RawQtys))
  \/ VpGet(1)
  \/ VpLine(1)
  \/ VpOrder(1)
  \/ VpStoreFail(1)

SpecVerify == Init /\ [][NextVerify]_vars

\* One verify-payment request, of src/index.js or of part_000, from every catalog.
NextSig ==
  \/ Submit(1, "verify-payment", PaymentBodies({0, 10}))
  \/ Submit(1, "verify-payment-0", PaymentBodies({0, 10}))
  \/ VpStart(1, Carts(RawQtys))
  \/ VpGet(1)
  \/ VpLine(1)
  \/ VpOrder(1)
  \/ VpStoreFail(1)
  \/ V0Start(1, Carts(IntQtys))
  \/ P0Get(1)
  \/ P0Put(1)
  \/ P0Add(1)
  \/ P0StoreFail(1)

SpecSig == Init /\ [][NextSig]_vars

\* One create-payment request of src/index.js, alone, from every catalog.
ClientTotals == {0 - 1, 0, 4, 5, 6, 7, 10, NaN}

NextCreate ==
  \/ Submit(1, "create-payment", CreateBodies(ClientTotals))
  \/ CpStart(1, Carts(RawQtys))
  \/ CpGet(1)
  \/ CpValidate(1)
  \/ CpGateway(1)
  \/ CpGatewayFail(1)
  \/ CpStoreFail(1)

SpecCreate == Init /\ [][NextCreate]_vars

\* One request to src/index.js, create-payment or verify-payment, from every catalog.
NextIndex ==
  \/ Submit(1, "create-payment", CreateBodies({0, 10}))
  \/ CpStart(1, Carts(RawQtys))
  \/ CpGet(1)
  \/ CpValidate(1)
  \/ CpGateway(1)
  \/ CpGatewayFail(1)
  \/ CpStoreFail(1)
  \/ Submit(1, "verify-payment", PaymentBodies({0, 10}))
  \/ VpStart(1, Carts(RawQtys))
  \/ VpGet(1)
  \/ VpLine(1)
  \/ VpOrder(1)
  \/ VpStoreFail(1)

SpecIndex == Init /\ [][NextIndex]_vars

\* The create-payment request of slot 1 sent a second time, as slot 2, with the
\* same body and the same cart; no request of this specification writes a product.
TwiceBodies == {b \in CreateBodies({5, 10}) : b.token = "good" /\ b.hasItems}

InitTwice ==
  /\ products \in Catalogs
  /\ orders = <<>>
  /\ gatewayOrders = <<>>
  /\ keysConfigured = TRUE
  /\ InitRequests

SubmitAgain(r, first) ==
  /\ pc[r] = "idle" /\ body[first].items # <<>>
  /\ body' = [body EXCEPT ![r] = [body[first] EXCEPT !.items = <<>>]]
  /\ pc' = [pc EXCEPT ![r] = "recv"]
  /\ UNCHANGED <<products, orders, gatewayOrders, keysConfigured, local, resp, log>>

NextTwice ==
  \/ Submit(1, "create-payment", TwiceBodies)
  \/ CpStart(1, Carts(RawQtys))
  \/ SubmitAgain(2, 1)
  \/ CpStart(2, {body[1].items})
  \/ \E r \in {1, 2} :
       \/ CpGet(r)
       \/ CpValidate(r)
       \/ CpGateway(r)
       \/ CpGatewayFail(r)
       \/ CpStoreFail(r)

SpecTwice == InitTwice /\ [][NextTwice]_vars

\* One checkout request to part_000, verify-payment or place-cod, from every catalog.
NextP0 ==
  \/ Submit(1, "verify-payment-0", PaymentBodies({0, 10}))
  \/ Submit(1, "place-cod-0", CodBodies({0, 10}))
  \/ V0Start(1, Carts(IntQtys))
  \/ C0Start(1, Carts(IntQtys))
  \/ P0Get(1)
  \/ P0Put(1)
  \/ P0Add(1)
  \/ P0StoreFail(1)

SpecP0 == Init /\ [][NextP0]_vars

\* Well-formed checkout requests with carts of positive quantities, running
\* concurrently in every interleaving over a catalog of tracked products.
GoodPayment ==
  {b \in PaymentBodies({10}) :
     /\ b.token = "good" /\ b.razorpay_order_id = "o1" /\ b.razorpay_payment_id = "pay1"
     /\ b.razorpay_signature = Hmac(Secret, "o1|pay1")
     /\ b.hasOrderData /\ b.hasItems}
GoodCod ==
  {b \in CodBodies({10}) : b.token = "good" /\ b.hasItems /\ b.shippingAddress = FilledAddress}

InitStock ==
  /\ products \in {c \in Catalogs : /\ c["p1"].tracked /\ c["p1"].isActive
                                    /\ c["p2"].exists /\ c["p2"].tracked /\ c["p2"].isActive}
  /\ orders = <<>>
  /\ gatewayOrders = <<>>
  /\ keysConfigured = TRUE
  /\ InitRequests

NextStock ==
  \E r \in ReqIds :
    \/ Submit(r, "verify-payment", GoodPayment)
    \/ Submit(r, "verify-payment-0", GoodPayment)
    \/ Submit(r, "place-cod-0", GoodCod)
    \/ VpStart(r, Carts(PositiveInts))
    \/ VpGet(r)
    \/ VpLine(r)
    \/ VpOrder(r)
    \/ VpStoreFail(r)
    \/ V0Start(r, Carts(PositiveInts))
    \/ C0Start(r, Carts(PositiveInts))
    \/ P0Get(r)
    \/ P0Put(r)
    \/ P0Add(r)
    \/ P0StoreFail(r)

SpecStock == InitStock /\ [][NextStock]_vars

\* The checkouts of src/index.js together with its admin routes: two
\* verify-payment requests running concurrently while an admin edits and
\* deactivates products and updates Orders.
OneLineCarts == {c \in Carts(PositiveInts) : Len(c) = 1}

InitAdmin ==
  /\ products \in {c \in Catalogs : /\ c["p1"].tracked /\ c["p1"].isActive
                                    /\ c["p1"].inventory = MaxStock
                                    /\ c["p2"].exists /\ c["p2"].tracked /\ c["p2"].isActive}
  /\ orders = <<>>
  /\ gatewayOrders = <<>>
  /\ keysConfigured = TRUE
  /\ InitRequests

NextAdmin ==
  \/ \E r \in {1, 2} :
       \/ Submit(r, "verify-payment", GoodPayment)
       \/ VpStart(r, OneLineCarts)
       \/ VpGet(r)
       \/ VpLine(r)
       \/ VpOrder(r)
       \/ VpStoreFail(r)
  \/ AdminPatchOrder
  \/ AdminPatchProduct
  \/ AdminDeleteProduct

SpecAdmin == InitAdmin /\ [][NextAdmin]_vars

\* The checkouts of part_000 together with its admin order update.
NextAdmin0 ==
  \/ \E r \in {1, 2} :
       \/ Submit(r, "verify-payment-0", GoodPayment)
       \/ Submit(r, "place-cod-0", GoodCod)
       \/ V0Start(r, OneLineCarts)
       \/ C0Start(r, OneLineCarts)
       \/ P0Get(r)
       \/ P0Put(r)
       \/ P0Add(r)
       \/ P0StoreFail(r)
  \/ AdminPatchOrder0

SpecAdmin0 == InitAdmin /\ [][NextAdmin0]_vars

\* Carts of at most two lines.
ShortCartLines == 2
ShortCarts == {c \in Carts(IntQtys) : Len(c) <= ShortCartLines}

\* One request to a route that creates an Order: verify-payment of
\* src/index.js, place-cod of part_000 or verify-payment of part_001.
NextPending ==
  \/ Submit(1, "verify-payment", PaymentBodies({0, 10}))
  \/ VpStart(1, ShortCarts)
  \/ VpGet(1)
  \/ VpLine(1)
  \/ VpOrder(1)
  \/ VpStoreFail(1)
  \/ Submit(1, "place-cod-0", CodBodies({0, 10}))
  \/ C0Start(1, ShortCarts)
  \/ P0Get(1)
  \/ P0Put(1)
  \/ P0Add(1)
  \/ P0StoreFail(1)
  \/ Submit(1, "verify-payment-1", PaymentBodies1({10}))
  \/ V1Start(1, ShortCarts)
  \/ V1Get(1)
  \/ V1Put(1)
  \/ V1Add(1)
  \/ V1StoreFail(1)

SpecPending == Init /\ [][NextPending]_vars

\* A verify-payment request of src/index.js and, once it has been answered,
\* the same request (ids, signature, cart) sent again.
NextReplay ==
  \/ Submit(1, "verify-payment", GoodPayment)
  \/ VpStart(1, Carts(PositiveInts))
  \/ (pc[1] = "done" /\ SubmitAgain(2, 1))
  \/ VpStart(2, {body[1].items})
  \/ \E r \in {1, 2} :
       \/ VpGet(r)
       \/ VpLine(r)
       \/ VpOrder(r)
       \/ VpStoreFail(r)

SpecReplay == InitStock /\ [][NextReplay]_vars

\* One checkout on src/index.js: create-payment by an identified caller, and
\* once it has returned the gateway order o1, verify-payment citing o1 with
\* the signature of the completed payment.  The cart of verify-payment is the
\* client's to send.
GoodCreate == {b \in CreateBodies({3, 5, 6, 10}) : b.token = "good" /\ b.hasItems}

NextPay ==
  \/ Submit(1, "create-payment", GoodCreate)
  \/ CpStart(1, Carts(PositiveInts))
  \/ CpGet(1)
  \/ CpValidate(1)
  \/ CpGateway(1)
  \/ CpGatewayFail(1)
  \/ CpStoreFail(1)
  \/ (pc[1] = "done" /\ resp[1].status = 200 /\ Submit(2, "verify-payment", GoodPayment))
  \/ VpStart(2, Carts(PositiveInts))
  \/ VpGet(2)
  \/ VpLine(2)
  \/ VpOrder(2)
  \/ VpStoreFail(2)

SpecPay == InitStock /\ [][NextPay]_vars

\* --------------------------------------------------------------- properties
RECURSIVE SumPriceQty(_)
\* sum over line items of price * quantity, in JavaScript numbers
SumPriceQty(items) ==
  IF items = <<>> THEN 0
  ELSE JsAdd(SumPriceQty(SubSeq(items, 1, Len(items) - 1)),
             JsMul(items[Len(items)].price, items[Len(items)].quantity))

Succeeded(r) == pc[r] = "done" /\ resp[r].status = 200
Failed(r) == pc[r] = "done" /\ resp[r].status \in {400, 401, 500}
IsIndexVerify(r) == body[r].route = "verify-payment"

StockWrites(r) == SelectSeq(log[r], LAMBDA e : e.coll = "products")
OrderWrites(r) == SelectSeq(log[r], LAMBDA e : e.coll = "orders")

\* The resolved line the handler derives from cart line k and the document read.
ResolvedLine(r, k) ==
  [productId |-> body[r].items[k].productId,
   name |-> products[body[r].items[k].productId].name,
   price |-> products[body[r].items[k].productId].price,
   quantity |-> parseInt(body[r].items[k].quantity)]

(* C2: every Order persisted by verify-payment of src/index.js holds one line
   item per cart line, priced at the product's server-held unit price with the
   line's (parsed) quantity, and its total is the sum of price * quantity over
   them, whatever total the client declared in orderData. *)
C2_PriceIntegrity ==
  \A r \in ReqIds :
    (IsIndexVerify(r) /\ Succeeded(r)) =>
      LET o == orders[resp[r].orderId]
      IN  /\ Len(o.items) = Len(body[r].items)
          /\ \A k \in 1..Len(o.items) : o.items[k] = ResolvedLine(r, k)
          /\ o.total = SumPriceQty([k \in 1..Len(body[r].items) |-> ResolvedLine(r, k)])

C2_Witness ==
  \E r \in ReqIds :
    /\ IsIndexVerify(r) /\ Succeeded(r)
    /\ Len(body[r].items) = 2
    /\ orders[resp[r].orderId].total = 13
    /\ body[r].total = 10

(* C3: a verify-payment call of src/index.js that returns success has added
   exactly one document to the orders collection, and a call that returns an
   error (400, 401, 500), or has not returned yet, has added none. *)
C3_ExactlyOnce ==
  \A r \in ReqIds :
    IsIndexVerify(r) =>
      /\ Succeeded(r) => (Len(OrderWrites(r)) = 1 /\ Len(orders) = 1)
      /\ ~Succeeded(r) => (Len(OrderWrites(r)) = 0 /\ Len(orders) = 0)

C3_Witness ==
  \E r \in ReqIds :
    /\ IsIndexVerify(r) /\ Succeeded(r) /\ Len(orders) = 1
    /\ orders[1].items # <<>>

ValidationErrors ==
  {"missing_payment_details", "missing_order_data", "invalid_signature", "product_not_found"}

(* C5: when verify-payment of src/index.js ends with a validation error, the
   request has written no product document and no Order. *)
C5_ValidationBeforeWrite ==
  \A r \in ReqIds :
    (IsIndexVerify(r) /\ Failed(r) /\ resp[r].error \in ValidationErrors) => log[r] = <<>>

\* Cart line k, against the document the handler read for it, passes the rules
\* of the Pricing & Availability Validator.
LineValid(r, k) ==
  LET d == local[r].productDocs[k]
      q == body[r].items[k].quantity
  IN  /\ d.exists
      /\ d.isActive
      /\ IsPositiveInteger(q)
      /\ d.tracked => d.inventory >= q.n

(* C6: verify-payment of src/index.js persists an Order and changes stock only
   if every cart line names an existing, active product with a positive integer
   quantity that a tracked stock covers. *)
C6_Revalidates ==
  \A r \in ReqIds :
    (IsIndexVerify(r) /\ log[r] # <<>>) =>
      \A k \in 1..Len(body[r].items) : LineValid(r, k)

\* The sum of the parsed quantities of the cart lines of request r naming p
RECURSIVE QtyOf(_, _)
QtyOf(items, p) ==
  IF items = <<>> THEN 0
  ELSE JsAdd(QtyOf(SubSeq(items, 1, Len(items) - 1), p),
             IF items[Len(items)].productId = p
               THEN parseInt(items[Len(items)].quantity) ELSE 0)

(* C7: after a successful verify-payment of src/index.js with no concurrent
   request (a cart of positive integer quantities), every tracked product whose
   stock covers the order has lost exactly the sum of the quantities of the cart
   lines naming it, and no untracked product is written. *)
C7_DecrementPerLine ==
  \A r \in ReqIds :
    (/\ IsIndexVerify(r) /\ Succeeded(r)
     /\ \A k \in 1..Len(body[r].items) : IsPositiveInteger(body[r].items[k].quantity)) =>
      \A k \in 1..Len(body[r].items) :
        LET p == body[r].items[k].productId
            before == local[r].productDocs[k]
            need == QtyOf(body[r].items, p)
        IN  /\ (before.tracked /\ JsGe(before.inventory, need)) =>
                 products[p].inventory = before.inventory - need
            /\ ~before.tracked => \A e \in 1..Len(log[r]) : log[r][e].id # p

\* The stock writes that flooring at zero makes for the lines of request r
RECURSIVE ClampedWrites(_, _)
ClampedWrites(r, n) ==
  IF n = 0 THEN <<>>
  ELSE LET d == local[r].productDocs[n]
           it == body[r].items[n]
       IN  IF d.tracked
             THEN Append(ClampedWrites(r, n - 1),
                         StockWrite(it.productId,
                                    MathMax(0, JsSub(d.inventory, parseInt(it.quantity)))))
             ELSE ClampedWrites(r, n - 1)

(* C8: in a successful verify-payment of src/index.js (a cart of positive
   integer quantities) the stock written back for every cart line on a tracked
   product is max(0, current_stock - quantity): a quantity above the current
   stock leaves the stock 0, and the checkout succeeds. *)
C8_ClampAtZero ==
  \A r \in ReqIds :
    (/\ IsIndexVerify(r) /\ Succeeded(r)
     /\ \A k \in 1..Len(body[r].items) : IsPositiveInteger(body[r].items[k].quantity)) =>
      StockWrites(r) = ClampedWrites(r, Len(body[r].items))

IsVerify(r) == body[r].route \in {"verify-payment", "verify-payment-0"}

\* The submitted signature differs from HMAC-SHA256(secret, "<order_id>|<payment_id>").
SignatureDiffers(b) ==
  b.razorpay_signature # Hmac(Secret, b.razorpay_order_id \o "|" \o b.razorpay_payment_id)

(* C1 as stated: every verify-payment request (src/index.js, part_000) whose
   signature differs from the HMAC is rejected with the invalid-signature error,
   creates no Order and changes no stock. *)
C1_RejectedAsInvalidSignature ==
  \A r \in ReqIds :
    (IsVerify(r) /\ pc[r] = "done" /\ SignatureDiffers(body[r])) =>
      /\ resp[r].status = 400 /\ resp[r].error = "invalid_signature"
      /\ log[r] = <<>>

\* The request passes every check the handler makes before the signature check.
ReachesSignatureCheck(r) ==
  LET b == body[r]
  IN  /\ b.token = "good"
      /\ keysConfigured
      /\ IsIndexVerify(r) =>
           /\ b.razorpay_order_id # "" /\ b.razorpay_payment_id # ""
           /\ b.razorpay_signature # ""
           /\ b.hasOrderData /\ b.hasItems /\ b.total # 0

(* C1, amended: a verify-payment request whose signature differs from the HMAC
   never gets past the signature check: it is rejected with an error, creates no
   Order and changes no stock; the error is invalid_signature whenever the
   request passes the checks made before the signature check, and otherwise the
   error of the first of those checks it fails. *)
C1_BadSignatureWritesNothing ==
  \A r \in ReqIds :
    (IsVerify(r) /\ SignatureDiffers(body[r])) =>
      /\ pc[r] \in {"recv", "done"}
      /\ log[r] = <<>> /\ orders = <<>>
      /\ pc[r] = "done" =>
           /\ resp[r].status \in {400, 401, 500}
           /\ ReachesSignatureCheck(r) =>
                (resp[r].status = 400 /\ resp[r].error = "invalid_signature")
           /\ resp[r].error = "invalid_signature" => ReachesSignatureCheck(r)

C1_Witness ==
  \E r \in ReqIds :
    /\ IsVerify(r) /\ pc[r] = "done"
    /\ body[r].razorpay_signature = Hmac("attacker", "o1|pay1")
    /\ resp[r].error = "invalid_signature"
    /\ \E p \in ProductIds : products[p].tracked /\ products[p].inventory > 0

(* C4: from products whose tracked stock is not negative, after any sequence and
   interleaving of checkout requests with positive quantities (verify-payment of
   src/index.js, verify-payment and place-cod of part_000), every tracked
   product's stock is still not negative. *)
C4_StockNeverNegative ==
  \A p \in ProductIds :
    (products[p].exists /\ products[p].tracked) => JsGe(products[p].inventory, 0)

\* A line's quantity was above the stock read and the floor left the stock 0,
\* while another request was under way.
C4_Witness ==
  \E r \in ReqIds :
    /\ body[r].route \in P0Routes
    /\ \E k \in 1..Len(body[r].items) :
         /\ k < local[r].i
         /\ local[r].productDocs[k].tracked
         /\ local[r].productDocs[k].inventory < ToNumber(body[r].items[k].quantity)
         /\ products[body[r].items[k].productId].inventory = 0
    /\ \E q \in ReqIds \ {r} : pc[q] \notin {"idle", "done"} /\ log[q] # <<>>

IsCreate(r) == body[r].route = "create-payment"

\* The request got as far as calling the payment gateway.
GatewayCalled(r) ==
  IsCreate(r) /\ (pc[r] = "gateway" \/ (pc[r] = "done" /\ resp[r].error \in {"", "razorpay_error"}))

LineErrors == {"product_not_found", "product_inactive", "invalid_quantity", "insufficient_inventory"}

(* C9: create-payment of src/index.js reaches the gateway call only if every
   cart line passes validation, and fails with product_not_found for an id that
   does not resolve, product_inactive for a false active flag, invalid_quantity
   for a quantity that is not a positive integer, insufficient_inventory for a
   tracked stock below the quantity (never for an untracked product). *)
C9_ValidatesBeforeGateway ==
  \A r \in ReqIds :
    IsCreate(r) =>
      LET n == Len(body[r].items)
          d(k) == local[r].productDocs[k]
          q(k) == body[r].items[k].quantity
      IN  /\ GatewayCalled(r) => \A k \in 1..n : LineValid(r, k)
          /\ (pc[r] = "done" /\ resp[r].error = "product_not_found") =>
               \E k \in 1..n : ~d(k).exists
          /\ (pc[r] = "done" /\ resp[r].error = "product_inactive") =>
               \E k \in 1..n : d(k).exists /\ ~d(k).isActive
          /\ (pc[r] = "done" /\ resp[r].error = "invalid_quantity") =>
               \E k \in 1..n : ~IsPositiveInteger(q(k))
          /\ (pc[r] = "done" /\ resp[r].error = "insufficient_inventory") =>
               \E k \in 1..n : d(k).tracked /\ JsLt(d(k).inventory, parseInt(q(k)))

(* C10: for every request create-payment of src/index.js accepts, the amount
   requested from the payment gateway is the server-recomputed total T (the sum
   of server price * quantity) in the minor unit: exactly T * 100. *)
C10_AmountIsTrustedTotal ==
  \A r \in ReqIds :
    GatewayCalled(r) =>
      local[r].amountInPaise =
        100 * SumPriceQty([k \in 1..Len(body[r].items) |-> ResolvedLine(r, k)])

\* The total the server recomputes for the cart of request r: the sum of server
\* price * quantity over its lines, once every line has passed validation.
ServerTotal(r) == SumPriceQty([k \in 1..Len(body[r].items) |-> ResolvedLine(r, k)])

\* The handler of request r has recomputed the cart's total: every product
\* document was read and every line passed validation.
TotalRecomputed(r) ==
  /\ IsCreate(r) /\ body[r].items # <<>>
  /\ local[r].fetched = 1..Len(body[r].items)
  /\ pc[r] \in {"gateway", "done"}
  /\ ~(pc[r] = "done" /\ resp[r].error \in LineErrors)

\* The client-declared total is more than 1 currency unit away from t.
BeyondTolerance(total, t) == total - t > 1 \/ t - total > 1

(* C11: a create-payment request of src/index.js whose declared total differs
   from the total the server recomputed for its cart by more than 1 currency
   unit is rejected with 400 total_mismatch, and the payment gateway is never
   called for it; a difference of at most 1 is not a mismatch. *)
C11_TotalMismatchRejected ==
  \A r \in ReqIds :
    TotalRecomputed(r) =>
      /\ BeyondTolerance(body[r].total, ServerTotal(r)) =>
            /\ pc[r] = "done" /\ resp[r].status = 400 /\ resp[r].error = "total_mismatch"
            /\ gatewayOrders = <<>>
      /\ ~BeyondTolerance(body[r].total, ServerTotal(r)) => resp[r].error # "total_mismatch"

\* The declared total 7 against a recomputed total 5: just beyond the tolerance.
C11_Witness ==
  \E r \in ReqIds :
    /\ TotalRecomputed(r) /\ pc[r] = "done" /\ resp[r].error = "total_mismatch"
    /\ body[r].total = 7 /\ ServerTotal(r) = 5

(* C12: no step of a create-payment request of src/index.js writes to the
   products or the orders collection: whatever the outcome (a validation
   failure, the gateway's success, the gateway's failure), every product
   document and the sequence of Orders are what they were before the step. *)
C12_CreatePaymentWritesNothing ==
  [][(\E r \in ReqIds : body'[r].route = "create-payment" /\ pc'[r] # pc[r]) =>
       UNCHANGED <<products, orders, log>>]_vars

\* The gateway failed for a validated cart on a product in stock.
C12_Witness ==
  \E r \in ReqIds :
    /\ IsCreate(r) /\ pc[r] = "done" /\ resp[r].error = "razorpay_error"
    /\ local[r].lineItems # <<>>
    /\ orders = <<>> /\ log[r] = <<>>
    /\ products["p1"].tracked /\ products["p1"].inventory > 0

\* The request carries no valid identity: no Authorization header, or a token
\* the identity service rejects.
NoValidIdentity(r) == body[r].token \in {"none", "bad"}

(* C13: a create-payment or verify-payment request of src/index.js without a
   valid identity is answered 401 unauthorized, and nothing else happens for
   it: no product document is read, the gateway is not called, no stock and no
   Order is written. *)
C13_UnauthorizedFirst ==
  \A r \in ReqIds :
    (body[r].route \in {"create-payment", "verify-payment"} /\ NoValidIdentity(r)) =>
      /\ pc[r] \in {"recv", "done"}
      /\ pc[r] = "done" => (resp[r].status = 401 /\ resp[r].error = "unauthorized")
      /\ local[r] = NoLocal
      /\ log[r] = <<>> /\ orders = <<>> /\ gatewayOrders = <<>>

\* A verify-payment request with a rejected token, otherwise complete and
\* correctly signed, was answered unauthorized.
C13_Witness ==
  \E r \in ReqIds :
    /\ IsIndexVerify(r) /\ body[r].token = "bad"
    /\ ~SignatureDiffers(body[r]) /\ body[r].hasOrderData /\ body[r].hasItems
    /\ body[r].total = 10 /\ keysConfigured
    /\ pc[r] = "done" /\ resp[r].error = "unauthorized"

\* The cart validation of create-payment request r has run to its end.
Validated(r) ==
  /\ IsCreate(r) /\ body[r].items # <<>>
  /\ local[r].fetched = 1..Len(body[r].items)
  /\ pc[r] \in {"gateway", "done"}

\* Its outcome: the line error, or the Resolved Line Items and the computed total.
ValidationOutcome(r) ==
  IF pc[r] = "done" /\ resp[r].error \in LineErrors
    THEN [error |-> resp[r].error, lineItems |-> <<>>, calculatedTotal |-> 0]
    ELSE [error |-> "", lineItems |-> local[r].lineItems,
          calculatedTotal |-> local[r].calculatedTotal]

(* C14: two runs of the cart validation of create-payment (src/index.js) on the
   same cart, with no change of the catalog between or during them, end with
   the same outcome: the same error, or identical Resolved Line Items and the
   same computed total, in whatever order the product reads complete. *)
C14_ValidationRepeatable ==
  \A r1, r2 \in ReqIds :
    (Validated(r1) /\ Validated(r2) /\ body[r1].items = body[r2].items) =>
      ValidationOutcome(r1) = ValidationOutcome(r2)

\* Both runs priced the same cart of two lines, at the total 8.
C14_Witness ==
  /\ Validated(1) /\ Validated(2)
  /\ Len(body[1].items) = 2 /\ body[1].items = body[2].items
  /\ ValidationOutcome(1).error = "" /\ ValidationOutcome(2).calculatedTotal = 8

IsCod(r) == body[r].route = "place-cod-0"

\* Nothing was looked up or written for request r.
NothingDone(r) == local[r] = NoLocal /\ log[r] = <<>> /\ orders = <<>>

(* C15: place-cod of part_000 answers an unauthenticated caller with 401
   unauthorized and an authenticated request whose shippingAddress is missing
   or empty ("" or an address object without fields) with 400 invalid_payload,
   in both cases with no product read, no stock change and no Order written. *)
C15_RejectsBeforeLookup ==
  \A r \in ReqIds :
    IsCod(r) =>
      /\ NoValidIdentity(r) =>
            /\ pc[r] \in {"recv", "done"} /\ NothingDone(r)
            /\ pc[r] = "done" => (resp[r].status = 401 /\ resp[r].error = "unauthorized")
      /\ (~NoValidIdentity(r) /\ body[r].shippingAddress \in {NoAddress, "", EmptyObject}) =>
            /\ pc[r] \in {"recv", "done"} /\ NothingDone(r)
            /\ pc[r] = "done" => (resp[r].status = 400 /\ resp[r].error = "invalid_payload")

IsP0(r) == body[r].route \in P0Routes

\* Cart line k of a part_000 checkout passes the rules of the Pricing &
\* Availability Validator: against the catalog, and for a line already handled
\* against the stock the handler read for it.
P0LineValid(r, k) ==
  LET it == body[r].items[k]
      d == local[r].productDocs[k]
  IN  /\ products[it.productId].exists
      /\ products[it.productId].isActive
      /\ IsPositiveInteger(it.quantity)
      /\ (k < local[r].i /\ d.tracked) => d.inventory >= it.quantity.n

(* C16: place-cod of part_000 changes stock or writes an Order only if every
   cart line names an existing, active product with a positive quantity that a
   tracked stock covers; with any other line the checkout fails and nothing is
   written. *)
C16_CodValidates ==
  \A r \in ReqIds :
    (IsCod(r) /\ body[r].shippingAddress = FilledAddress
     /\ (log[r] # <<>> \/ Succeeded(r))) =>
      \A k \in 1..Len(body[r].items) : P0LineValid(r, k)

\* The cart of request r is not empty and its quantities are positive integers.
PositiveCart(r) ==
  /\ body[r].items # <<>>
  /\ \A k \in 1..Len(body[r].items) : IsPositiveInteger(body[r].items[k].quantity)

RECURSIVE P0SumPriceQty(_)
\* sum over the line items of a part_000 Order of price * quantity
P0SumPriceQty(items) ==
  IF items = <<>> THEN 0
  ELSE JsAdd(P0SumPriceQty(SubSeq(items, 1, Len(items) - 1)),
             JsMul(items[Len(items)].price, ToNumber(items[Len(items)].quantity)))

(* C17: every Order persisted by verify-payment or place-cod of part_000 has
   total = the sum over its own line items of price * quantity, whatever total
   the client sent (stated for carts of positive integer quantities). *)
C17_P0TotalIsSum ==
  \A r \in ReqIds :
    (IsP0(r) /\ Succeeded(r) /\ PositiveCart(r)) =>
      orders[resp[r].orderId].total = P0SumPriceQty(orders[resp[r].orderId].items)

(* C18: in verify-payment and place-cod of part_000 a cart line whose product
   does not exist aborts the checkout with no Order written: every persisted
   Order has exactly one line item per submitted cart line, in the same order
   (stated for carts of positive integer quantities). *)
C18_P0NoSilentSkip ==
  \A r \in ReqIds :
    (IsP0(r) /\ PositiveCart(r)) =>
      /\ (\E k \in 1..Len(body[r].items) : ~products[body[r].items[k].productId].exists) =>
            OrderWrites(r) = <<>>
      /\ Succeeded(r) =>
            LET o == orders[resp[r].orderId]
            IN  /\ Len(o.items) = Len(body[r].items)
                /\ \A k \in 1..Len(o.items) :
                     /\ o.items[k].productId = body[r].items[k].productId
                     /\ o.items[k].quantity = body[r].items[k].quantity

\* Request r is a finished verify-payment whose cart is one line on product p,
\* for which it read the stock s and wrote the stock back.
ReadAndWrote(r, p, s) ==
  /\ IsVerify(r) /\ Succeeded(r)
  /\ Len(body[r].items) = 1 /\ body[r].items[1].productId = p
  /\ local[r].productDocs[1].tracked /\ local[r].productDocs[1].inventory = s
  /\ Len(StockWrites(r)) = 1

(* C19: a lost update on stock is reachable.  Whenever two verify-payment
   requests (src/index.js or part_000) for the same tracked product have both
   read the same stock s and both written, both Orders are persisted and the
   final stock is the value one of them wrote, greater than s minus the sum of
   the two quantities; the witness shows that two concurrent requests get there. *)
C19_LostUpdate ==
  \A r1, r2 \in ReqIds : \A p \in ProductIds : \A s \in 0..MaxStock :
    (r1 # r2 /\ ReadAndWrote(r1, p, s) /\ ReadAndWrote(r2, p, s)) =>
      /\ Len(orders) = 2
      /\ products[p].inventory \in {StockWrites(r1)[1].value, StockWrites(r2)[1].value}
      /\ products[p].inventory >
           s - ToNumber(body[r1].items[1].quantity) - ToNumber(body[r2].items[1].quantity)

\* Two verify-payment requests of src/index.js for one unit each both read the
\* stock 2 of p1 and both wrote 1: two Orders, two units sold, stock 1.
C19_Witness ==
  /\ body[1].route = "verify-payment" /\ body[2].route = "verify-payment"
  /\ ReadAndWrote(1, "p1", 2) /\ ReadAndWrote(2, "p1", 2)
  /\ body[1].items[1].quantity = Num(1) /\ body[2].items[1].quantity = Num(1)
  /\ Len(orders) = 2
  /\ products["p1"].inventory = 1

(* C20: in src/index.js no step changes the item list or the total of an Order
   that exists: the admin order update changes nothing of an Order but its
   status, and admin product edits, product deactivation and other checkouts
   leave every existing Order as it is; Orders are only ever added. *)
C20_OrderItemsImmutable ==
  [][/\ Len(orders') >= Len(orders)
     /\ \A n \in 1..Len(orders) :
          /\ orders'[n].items = orders[n].items
          /\ orders'[n].total = orders[n].total
          /\ Merge(orders'[n], [status |-> orders[n].status]) = orders[n]]_vars

\* The first Order sold p1 at 5 and was since shipped; p1 was then renamed,
\* repriced to 7 and deactivated, and a second Order sold it at 7.
C20_Witness ==
  /\ Len(orders) = 2
  /\ orders[1].status = "shipped"
  /\ orders[1].items = <<[productId |-> "p1", name |-> "n1", price |-> 5, quantity |-> 1]>>
  /\ orders[1].total = 5
  /\ products["p1"].price = 7 /\ products["p1"].name = "renamed" /\ ~products["p1"].isActive
  /\ orders[2].items[1].productId = "p1" /\ orders[2].items[1].price = 7

\* The status enumeration of an Order.
OrderStatuses == {"pending", "confirmed", "packed", "shipped", "delivered", "cancelled"}

(* C21: in src/index.js, after any sequence of checkouts and admin order
   updates every Order's status is one of pending, confirmed, packed, shipped,
   delivered, cancelled; an admin's update whose status is missing or outside
   this set is answered invalid_status (and writes nothing), and an admin's
   update to a value of the set is accepted for every existing Order, whatever
   its current status. *)
C21_StatusInSet ==
  /\ \A n \in 1..Len(orders) : orders[n].status \in OrderStatuses
  /\ \A orderId \in 1..(MaxReq + 1), status \in RequestedStatuses :
       /\ (status = "" \/ status \notin OrderStatuses) =>
             AdminOrderError("admin", orderId, status) = "invalid_status"
       /\ (status \in OrderStatuses /\ orderId \in 1..Len(orders)) =>
             AdminOrderError("admin", orderId, status) = ""

\* One Order was moved to shipped, the other is still pending; the set's values
\* are accepted for both.
C21_Witness ==
  /\ Len(orders) = 2
  /\ orders[1].status = "shipped" /\ orders[2].status = "pending"

(* C22: in part_000, after any sequence of checkouts and admin order updates
   every Order's status is one of pending, confirmed, packed, shipped,
   delivered, cancelled. *)
C22_StatusInSet0 == \A n \in 1..Len(orders) : orders[n].status \in OrderStatuses

(* C23: every Order is created with status pending, whatever the client sent:
   by verify-payment of src/index.js, with payment metadata holding the gateway
   order id and payment id of the request; by place-cod of part_000, with
   paymentMethod cod and paymentStatus awaiting_collection; by verify-payment
   of part_001, where the status and the userId are the server's (pending, the
   caller's uid or guest) even when orderData carries fields of those names. *)
C23_CreatedPending ==
  \A r \in ReqIds :
    Succeeded(r) =>
      LET o == orders[resp[r].orderId]
      IN  /\ o.status = "pending"
          /\ IsIndexVerify(r) =>
                /\ o.payment.razorpay_order_id = body[r].razorpay_order_id
                /\ o.payment.razorpay_payment_id = body[r].razorpay_payment_id
                /\ o.payment.razorpay_order_id # "" /\ o.payment.razorpay_payment_id # ""
          /\ IsCod(r) => (o.paymentMethod = "cod" /\ o.paymentStatus = "awaiting_collection")
          /\ body[r].route = "verify-payment-1" =>
                o.userId = (IF body[r].token = "good" THEN "u1" ELSE "guest")

\* part_001 stored an Order for a guest whose orderData named a status and a userId.
C23_Witness ==
  \E r \in ReqIds :
    /\ body[r].route = "verify-payment-1" /\ Succeeded(r)
    /\ body[r].clientStatus = "delivered" /\ body[r].clientUserId = "u2"
    /\ orders[resp[r].orderId].status = "pending"
    /\ orders[resp[r].orderId].userId = "guest"
    /\ orders[resp[r].orderId].items # <<>>

(* C24: within one verify-payment request of src/index.js the store writes
   follow the protocol order: a request writes nothing unless its caller is
   identified and its signature is the HMAC of its ids; the Order write is made
   only once the loop has processed every cart line; and the Order write is
   the last store write of the request. *)
C24_ProtocolOrder ==
  \A r \in ReqIds :
    IsIndexVerify(r) =>
      /\ log[r] # <<>> =>
            /\ maybeAuth(body[r].token) # "null"
            /\ body[r].razorpay_signature =
                  Hmac(Secret, SignedMessage(body[r].razorpay_order_id, body[r].razorpay_payment_id))
      /\ \A k \in 1..Len(log[r]) :
            log[r][k].coll = "orders" =>
              /\ k = Len(log[r])
              /\ local[r].i > Len(body[r].items)
              /\ Len(local[r].lineItems) = Len(body[r].items)

\* A two-line cart: two stock writes, then the Order write, then success.
C24_Witness ==
  \E r \in ReqIds :
    /\ IsIndexVerify(r) /\ Succeeded(r)
    /\ Len(log[r]) = 3
    /\ log[r][1].coll = "products" /\ log[r][2].coll = "products"
    /\ log[r][3].coll = "orders"

(* C25: when a store operation of verify-payment of src/index.js fails (the
   stock write of cart line k, or the Order write), the request ends with
   internal_error, no Order exists, no line was written twice, and every stock
   write made for an earlier line is still in the store: a product written by
   the request holds the value of the request's last write to it. *)
C25_NoRollback ==
  \A r \in ReqIds :
    (IsIndexVerify(r) /\ Failed(r) /\ resp[r].error = "internal_error" /\ keysConfigured) =>
      /\ OrderWrites(r) = <<>> /\ orders = <<>>
      /\ Len(StockWrites(r)) <= local[r].i - 1
      /\ LET sw == StockWrites(r)
         IN  \A k \in 1..Len(sw) :
               (\A j \in (k + 1)..Len(sw) : sw[j].id # sw[k].id) =>
                 products[sw[k].id].inventory = sw[k].value

\* The write of line 2 failed after line 1 had lowered the stock of its product.
C25_Witness ==
  \E r \in ReqIds :
    /\ IsIndexVerify(r) /\ Failed(r) /\ resp[r].error = "internal_error" /\ keysConfigured
    /\ Len(body[r].items) = 2 /\ local[r].i = 2
    /\ Len(StockWrites(r)) = 1
    /\ StockWrites(r)[1].value < local[r].productDocs[1].inventory
    /\ products[body[r].items[1].productId].inventory = StockWrites(r)[1].value

WritesTo(r, p) == SelectSeq(log[r], LAMBDA e : e.coll = "products" /\ e.id = p)
LinesOn(cart, p) == Cardinality({k \in 1..Len(cart) : cart[k].productId = p})

(* C26: for verify-payment requests of src/index.js that carry the same gateway
   order id, payment id and valid signature, at most one Order exists for the
   payment id, and once the requests are answered each product's stock has
   been written for the payment at most once per cart line. *)
C26_OncePerPayment ==
  /\ \A m, n \in 1..Len(orders) :
       orders[m].payment.razorpay_payment_id = orders[n].payment.razorpay_payment_id => m = n
  /\ (pc[1] = "done" /\ pc[2] = "done"
        /\ body[1].razorpay_payment_id = body[2].razorpay_payment_id) =>
       \A p \in ProductIds :
         Len(WritesTo(1, p)) + Len(WritesTo(2, p)) <= LinesOn(body[1].items, p)

(* C27: every Order persisted by verify-payment of src/index.js is bound to the
   payment it cites: its total, in paise, is within the tolerance of one
   currency unit of the amount create-payment requested from the gateway for
   the gateway order id the Order names (stated for Orders that hold at least
   one line item). *)
C27_BoundToIntent ==
  \A n \in 1..Len(orders) :
    \A g \in 1..Len(gatewayOrders) :
      (gatewayOrders[g].id = orders[n].payment.razorpay_order_id /\ orders[n].items # <<>>) =>
        LET d == amountInPaise(orders[n].total) - gatewayOrders[g].amount
        IN  d <= 100 /\ 0 - d <= 100

RECURSIVE SumQty(_, _)
SumQty(items, p) ==
  IF items = <<>> THEN 0
  ELSE (IF Head(items).productId = p THEN Head(items).quantity ELSE 0) + SumQty(Tail(items), p)

RECURSIVE OrderedQty(_, _)
OrderedQty(n, p) == IF n = 0 THEN 0 ELSE SumQty(orders[n].items, p) + OrderedQty(n - 1, p)

(* C28: with create-payment followed by verify-payment for the same cart, one
   request at a time and no admin edit, a tracked product is never oversold:
   the quantities of the product over all persisted Orders sum to at most the
   stock it had when the checkout began (the document create-payment read). *)
C28_NeverOversold ==
  (pc[2] # "idle" /\ body[2].items = body[1].items) =>
    \A k \in 1..Len(body[1].items) :
      local[1].productDocs[k].tracked =>
        OrderedQty(Len(orders), body[1].items[k].productId) <= local[1].productDocs[k].inventory

\* A step leaves tracked product p with a larger stock than it had.
StockRises(p) ==
  /\ products[p].exists /\ products[p].tracked
  /\ products'[p].exists /\ products'[p].tracked
  /\ products[p].inventory # NaN /\ products'[p].inventory # NaN
  /\ products'[p].inventory > products[p].inventory

(* C29: no step of a checkout request (verify-payment of src/index.js,
   verify-payment or place-cod of part_000) increases the stock of a tracked
   product, whatever the quantities of the cart, zero and negative included. *)
C29_StockNeverRises == [][\A p \in ProductIds : ~StockRises(p)]_vars

\* The quantity a create-payment cart asks of product p over all its lines.
CartQty(cart, p) ==
  SumQty([k \in 1..Len(cart) |-> [productId |-> cart[k].productId,
                                  quantity |-> parseInt(cart[k].quantity)]], p)

AllIntegerLines(cart) == \A k \in 1..Len(cart) : cart[k].quantity \in PositiveInts

(* C30: create-payment of src/index.js accepts a cart (of positive integer
   quantities) only if, for every tracked product, the quantities of all the
   lines naming the product sum to at most the product's stock. *)
C30_WholeCartAvailable ==
  \A r \in ReqIds :
    (body[r].route = "create-payment" /\ Succeeded(r) /\ AllIntegerLines(body[r].items)) =>
      \A p \in ProductIds :
        (products[p].exists /\ products[p].tracked) =>
          CartQty(body[r].items, p) <= products[p].inventory

====
